---- MODULE Spec2Model ----
(***************************************************************************)
(* Longest palindromes around every centre of a sequence.                  *)
(*                                                                         *)
(* fast_longest_palindromes is modelled as a state machine, one action per *)
(* loop-body path, over every input sequence up to a bounded length.       *)
(* naive_longest_palindromes is modelled as a recursive operator.          *)
(* Python lists are 0-based; TLA+ sequences are 1-based.  Item(s, idx)     *)
(* performs the translation, including Python's negative subscripts.       *)
(***************************************************************************)
EXTENDS Integers, Sequences, FiniteSets, TLC

\* Bounds of the model.
MaxLen == 5
NumSyms == 3

Symbols == 1..NumSyms

RECURSIVE SeqsOfLen(_)
SeqsOfLen(n) ==
    IF n = 0 THEN { <<>> }
    ELSE { Append(s, x) : s \in SeqsOfLen(n - 1), x \in Symbols }

Inputs == UNION { SeqsOfLen(n) : n \in 0..MaxLen }

Min(a, b) == IF a < b THEN a ELSE b

\* Python subscripting s[idx]: valid for -len(s) <= idx < len(s), a negative
\* idx counts from the end.
IndexOK(s, idx) == idx >= 0 - Len(s) /\ idx < Len(s)

Item(s, idx) == IF idx >= 0 THEN s[idx + 1] ELSE s[Len(s) + idx + 1]

VARIABLES
    seq,            \* the input sequence (never modified)
    best_lengths,   \* the profile under construction
    i,              \* cursor of the main loop; loop variable of the final scan
    pal_len,        \* length of the current palindrome
    start, end,     \* bounds of the backward scans
    j,              \* loop variable of the mirror scan
    it,             \* next value the active range(start, end, -1) yields
    pc,             \* "while", "scan", "final", "done", "IndexError"
    nWhile,         \* executions of the while body
    nScan,          \* executions of the mirror-scan body
    nFinal          \* executions of the finalization-scan body

vars == <<seq, best_lengths, i, pal_len, start, end, j, it, pc,
          nWhile, nScan, nFinal>>

len_seq == Len(seq)

Init ==
    /\ seq \in Inputs
    /\ best_lengths = <<>>
    /\ i = 0
    /\ pal_len = 0
    /\ start = 0
    /\ end = 0
    /\ j = 0
    /\ it = 0
    /\ pc = "while"
    /\ nWhile = 0
    /\ nScan = 0
    /\ nFinal = 0

ExtendCheck_NoGuard ==
    IF IndexOK(seq, i - pal_len - 1) /\ IndexOK(seq, i)
    THEN IF Item(seq, i - pal_len - 1) = Item(seq, i) THEN "extend" ELSE "emit"
    ELSE "IndexError"

ExtendCheck_OffByOne ==
    IF i > pal_len
    THEN IF IndexOK(seq, i - pal_len) /\ IndexOK(seq, i)
         THEN IF Item(seq, i - pal_len) = Item(seq, i) THEN "extend" ELSE "emit"
         ELSE "IndexError"
    ELSE "emit"

ExtendCheck_Never == "emit"

\* The condition of line 28, with `and` short-circuiting: the subscripts are
\* evaluated only when i > pal_len.
ExtendCheck ==
    IF i > pal_len
    THEN IF IndexOK(seq, i - pal_len - 1) /\ IndexOK(seq, i)
         THEN IF Item(seq, i - pal_len - 1) = Item(seq, i) THEN "extend" ELSE "emit"
         ELSE "IndexError"
    ELSE "emit"

MirrorDistance_OffByOne(jj, e) == jj - e

\* d = j - end - 1 (lines 57 and 105)
MirrorDistance(jj, e) == jj - e - 1

Mirrored_NoBound(d, v) == v

\* min(d, best_lengths[j]) (lines 78 and 108)
Mirrored(d, v) == Min(d, v)

FinalEnd_OffByOne(st, sz) == st - (2 * len_seq - sz)

\* end = start - (2 * len_seq + 1 - size) (line 100)
FinalEnd(st, sz) == st - (2 * len_seq + 1 - sz)

\* while i < len_seq: if <extension check>: pal_len += 2; i += 1; continue
Extend ==
    /\ pc = "while"
    /\ i < len_seq
    /\ ExtendCheck = "extend"
    /\ pal_len' = pal_len + 2
    /\ i' = i + 1
    /\ nWhile' = nWhile + 1
    /\ UNCHANGED <<seq, best_lengths, start, end, j, it, pc, nScan, nFinal>>

\* The extension check fails: append pal_len and set up the mirror scan.
Emit ==
    /\ pc = "while"
    /\ i < len_seq
    /\ ExtendCheck # "extend"
    /\ nWhile' = nWhile + 1
    /\ IF ExtendCheck = "IndexError"
       THEN /\ pc' = "IndexError"
            /\ UNCHANGED <<best_lengths, start, end, it>>
       ELSE /\ best_lengths' = Append(best_lengths, pal_len)
            /\ start' = Len(best_lengths') - 2
            /\ end' = start' - pal_len
            /\ it' = start'
            /\ pc' = "scan"
    /\ UNCHANGED <<seq, i, pal_len, j, nScan, nFinal>>

\* Mirror scan body, best_lengths[j] == d: new pal_len, back to the while.
ScanBreak ==
    /\ pc = "scan"
    /\ it > end
    /\ IndexOK(best_lengths, it)
    /\ Item(best_lengths, it) = MirrorDistance(it, end)
    /\ j' = it
    /\ it' = it - 1
    /\ pal_len' = MirrorDistance(it, end)
    /\ pc' = "while"
    /\ nScan' = nScan + 1
    /\ UNCHANGED <<seq, best_lengths, i, start, end, nWhile, nFinal>>

\* Mirror scan body, best_lengths[j] != d: copy the bounded mirror value.
ScanCopy ==
    /\ pc = "scan"
    /\ it > end
    /\ ~ (IndexOK(best_lengths, it)
          /\ Item(best_lengths, it) = MirrorDistance(it, end))
    /\ j' = it
    /\ it' = it - 1
    /\ nScan' = nScan + 1
    /\ IF IndexOK(best_lengths, it)
       THEN /\ best_lengths' =
                 Append(best_lengths,
                        Mirrored(MirrorDistance(it, end), Item(best_lengths, it)))
            /\ pc' = pc
       ELSE /\ pc' = "IndexError"
            /\ UNCHANGED best_lengths
    /\ UNCHANGED <<seq, i, pal_len, start, end, nWhile, nFinal>>

ScanElse_NoAdvance ==
    /\ pc = "scan"
    /\ it <= end
    /\ pal_len' = 1
    /\ pc' = "while"
    /\ UNCHANGED <<seq, best_lengths, i, start, end, j, it, nWhile, nScan, nFinal>>

ScanElse_Zero ==
    /\ pc = "scan"
    /\ it <= end
    /\ pal_len' = 0
    /\ i' = i + 1
    /\ pc' = "while"
    /\ UNCHANGED <<seq, best_lengths, start, end, j, it, nWhile, nScan, nFinal>>

\* The for loop is exhausted without break: else clause.
ScanElse ==
    /\ pc = "scan"
    /\ it <= end
    /\ pal_len' = 1
    /\ i' = i + 1
    /\ pc' = "while"
    /\ UNCHANGED <<seq, best_lengths, start, end, j, it, nWhile, nScan, nFinal>>

\* The while condition is false: append the last pal_len, set up the
\* finalization scan.
ExitLoop ==
    /\ pc = "while"
    /\ ~ (i < len_seq)
    /\ best_lengths' = Append(best_lengths, pal_len)
    /\ start' = Len(best_lengths') - 2
    /\ end' = FinalEnd(start', Len(best_lengths'))
    /\ it' = start'
    /\ pc' = "final"
    /\ UNCHANGED <<seq, i, pal_len, j, nWhile, nScan, nFinal>>

\* Finalization scan body; the loop variable is i.
FinalCopy ==
    /\ pc = "final"
    /\ it > end
    /\ i' = it
    /\ it' = it - 1
    /\ nFinal' = nFinal + 1
    /\ IF IndexOK(best_lengths, it)
       THEN /\ best_lengths' =
                 Append(best_lengths,
                        Mirrored(MirrorDistance(it, end), Item(best_lengths, it)))
            /\ pc' = pc
       ELSE /\ pc' = "IndexError"
            /\ UNCHANGED best_lengths
    /\ UNCHANGED <<seq, pal_len, start, end, j, nWhile, nScan>>

\* return best_lengths
Return ==
    /\ pc = "final"
    /\ it <= end
    /\ pc' = "done"
    /\ UNCHANGED <<seq, best_lengths, i, pal_len, start, end, j, it,
                   nWhile, nScan, nFinal>>

Next ==
    \/ Extend
    \/ Emit
    \/ ScanBreak
    \/ ScanCopy
    \/ ScanElse
    \/ ExitLoop
    \/ FinalCopy
    \/ Return

Spec == Init /\ [][Next]_vars

\* A call runs to completion: the single thread always takes its next step.
LiveSpec == Init /\ [][Next]_vars /\ WF_vars(Next)

\* ---- naive_longest_palindromes ----

\* while start > 0 and end < len_seq and seq[start - 1] == seq[end]
RECURSIVE NaiveExpand(_, _, _)
NaiveExpand(s, st, en) ==
    IF st > 0 /\ en < Len(s) /\ Item(s, st - 1) = Item(s, en)
    THEN NaiveExpand(s, st - 1, en + 1)
    ELSE en - st

\* the body of `for i in range(size)`, for profile index k
NaiveAt(s, k) == NaiveExpand(s, k \div 2, (k \div 2) + (k % 2))

naive_longest_palindromes(s) == [k \in 1..(2 * Len(s) + 1) |-> NaiveAt(s, k - 1)]

\* ---- vocabulary of the properties ----

\* Python slice s[a:b] for 0 <= a <= b <= len(s)
Slice(s, a, b) == SubSeq(s, a + 1, b)

IsPalindrome(s) == \A k \in 1..Len(s) : s[k] = s[Len(s) + 1 - k]

AllSame(s) == \A a, b \in 1..Len(s) : s[a] = s[b]

SeqMax(s) == CHOOSE m \in { s[k] : k \in 1..Len(s) } : \A k \in 1..Len(s) : s[k] <= m

ProfileIndexes == 0..(Len(best_lengths) - 1)

\* start = k // 2 - best_lengths[k] // 2  (docstring, lines 124-125)
SubstringStart(k) == (k \div 2) - (Item(best_lengths, k) \div 2)

Ababa == <<1, 2, 1, 2, 1>>
AbabaProfile == <<0, 1, 0, 3, 0, 5, 0, 3, 0, 1, 0>>

Returned == pc = "done"

\* C1: the list fast_longest_palindromes returns equals, element for element,
\* the list naive_longest_palindromes computes for the same sequence; for
\* 'ababa' both are [0,1,0,3,0,5,0,3,0,1,0].
C1_FastEqualsNaive ==
    /\ pc # "IndexError"
    /\ Returned => best_lengths = naive_longest_palindromes(seq)
    /\ Returned /\ seq = Ababa =>
          /\ best_lengths = AbabaProfile
          /\ naive_longest_palindromes(seq) = AbabaProfile

C1_Witness == Returned /\ seq = Ababa

\* C2: every call terminates, the main loop exits with fewer than 2n + 1
\* entries, the list never exceeds 2n + 1 entries and the returned list has
\* exactly 2n + 1.
C2_LengthOK ==
    /\ pc # "IndexError"
    /\ Len(best_lengths) <= 2 * len_seq + 1
    /\ pc = "while" /\ ~ (i < len_seq) => Len(best_lengths) < 2 * len_seq + 1
    /\ Returned => Len(best_lengths) = 2 * len_seq + 1

C2_TerminatesWithFullProfile == [] C2_LengthOK /\ <> Returned

C2_Witness == Returned /\ len_seq = 3 /\ nFinal > 0 /\ Len(best_lengths) = 7

\* C3 (as stated): for every index k of the returned profile the mapped
\* substring lies within the sequence and is a palindrome, and extending it by
\* one element to the left, or by one element to the right, when in bounds,
\* gives a sequence that is not a palindrome.
C3_OneSidedMaximality ==
    Returned =>
      \A k \in ProfileIndexes :
        LET L  == Item(best_lengths, k)
            st == SubstringStart(k)
        IN /\ st >= 0
           /\ st + L <= len_seq
           /\ IsPalindrome(Slice(seq, st, st + L))
           /\ st > 0 => ~ IsPalindrome(Slice(seq, st - 1, st + L))
           /\ st + L < len_seq => ~ IsPalindrome(Slice(seq, st, st + L + 1))

\* C3 (amended): for every index k of the returned profile the mapped
\* substring lies within the sequence and is a palindrome, and extending it by
\* one element on both sides at once (same centre), when both are in bounds,
\* gives a sequence that is not a palindrome.
C3_CentredMaximality ==
    Returned =>
      \A k \in ProfileIndexes :
        LET L  == Item(best_lengths, k)
            st == SubstringStart(k)
        IN /\ st >= 0
           /\ st + L <= len_seq
           /\ IsPalindrome(Slice(seq, st, st + L))
           /\ st > 0 /\ st + L < len_seq =>
                 ~ IsPalindrome(Slice(seq, st - 1, st + L + 1))

C3_Witness ==
    /\ Returned
    /\ \E k \in ProfileIndexes :
          /\ Item(best_lengths, k) >= 2
          /\ SubstringStart(k) > 0
          /\ SubstringStart(k) + Item(best_lengths, k) < len_seq

\* C4: the returned profile has profile[0] = 0 and profile[2n] = 0, and for
\* the empty sequence it is exactly [0].
C4_Boundary ==
    Returned =>
      /\ Len(best_lengths) = 2 * len_seq + 1
      /\ Item(best_lengths, 0) = 0
      /\ Item(best_lengths, 2 * len_seq) = 0
      /\ len_seq = 0 => best_lengths = <<0>>

C4_Witness == Returned /\ len_seq = 4 /\ SeqMax(best_lengths) >= 3

\* C5: every entry of the returned profile has the parity of its index.
C5_Parity ==
    Returned => \A k \in ProfileIndexes : Item(best_lengths, k) % 2 = k % 2

C5_Witness ==
    /\ Returned
    /\ \E k \in ProfileIndexes : Item(best_lengths, k) = 2
    /\ \E k \in ProfileIndexes : Item(best_lengths, k) = 3

\* C6: for a sequence of m copies of one element, the maximum entry of the
\* profile is m, in the list of fast_longest_palindromes and in the list of
\* naive_longest_palindromes.
C6_Uniform ==
    Returned /\ AllSame(seq) =>
      /\ SeqMax(best_lengths) = len_seq
      /\ SeqMax(naive_longest_palindromes(seq)) = len_seq

C6_Witness == Returned /\ AllSame(seq) /\ len_seq = 4

\* Every subscript the next step evaluates is a valid non-negative index.
SubscriptsInRange ==
    /\ pc # "IndexError"
    /\ pc = "while" /\ i < len_seq /\ i > pal_len =>
          /\ i - pal_len - 1 \in 0..(len_seq - 1)
          /\ i \in 0..(len_seq - 1)
    /\ pc \in {"scan", "final"} /\ it > end =>
          it \in 0..(Len(best_lengths) - 1)

\* C7 (as stated): in every reachable state 0 <= pal_len <= i <= n, and every
\* subscript evaluated is in range and non-negative.
C7_CursorAlwaysBounded ==
    /\ 0 <= pal_len /\ pal_len <= i /\ i <= len_seq
    /\ SubscriptsInRange

\* C7 (amended): 0 <= pal_len <= n in every reachable state and
\* pal_len <= i <= n until the finalization scan rebinds i as its loop
\* variable; every subscript evaluated is in range and non-negative.
C7_NeverFails ==
    /\ 0 <= pal_len /\ pal_len <= len_seq
    /\ nFinal = 0 => pal_len <= i /\ i <= len_seq
    /\ SubscriptsInRange

C7_Witness ==
    /\ Returned
    /\ nScan > 0
    /\ nFinal > 0
    /\ i > len_seq

\* C8: the number of loop-body executions (while, mirror scan, finalization
\* scan together) never exceeds 5n + 1, and the while body runs at most 3n
\* times.
C8_LinearTime ==
    /\ nWhile + nScan + nFinal <= 5 * len_seq + 1
    /\ nWhile <= 3 * len_seq

C8_Witness == Returned /\ nWhile > len_seq /\ nScan > 0 /\ nFinal > 0

\* C9: whenever the while condition is evaluated, seq[i - pal_len : i] is a
\* palindrome, len(best_lengths) >= 2 * i - pal_len and
\* len(best_lengths) < 2 * i + 1.
C9_LoopInvariants ==
    pc = "while" =>
      /\ i - pal_len >= 0
      /\ i <= len_seq
      /\ IsPalindrome(Slice(seq, i - pal_len, i))
      /\ Len(best_lengths) >= 2 * i - pal_len
      /\ Len(best_lengths) < 2 * i + 1

C9_Witness == pc = "while" /\ pal_len >= 3 /\ nScan > 0 /\ ~ AllSame(seq)

\* C10: best_lengths is append-only and always a correct prefix of the final
\* answer: at the while condition its length is exactly 2 * i - pal_len, every
\* entry equals the entry of naive_longest_palindromes(seq) at the same index,
\* and no step changes an entry already appended.
C10_CorrectPrefix ==
    /\ pc = "while" => Len(best_lengths) = 2 * i - pal_len
    /\ Len(best_lengths) <= 2 * len_seq + 1
    /\ \A k \in 1..Len(best_lengths) :
          k <= 2 * len_seq + 1 /\ best_lengths[k] = naive_longest_palindromes(seq)[k]

C10_AppendOnly ==
    /\ Len(best_lengths') >= Len(best_lengths)
    /\ \A k \in 1..Len(best_lengths) : best_lengths'[k] = best_lengths[k]

C10_PrefixOfAnswer == [] C10_CorrectPrefix /\ [][C10_AppendOnly]_vars

C10_Witness == pc = "scan" /\ nScan >= 2 /\ Len(best_lengths) >= 5

====
